---- MODULE Spec2Model ----
(***************************************************************************)
(* Model of the React resource store factory (apiStoreCreator), of the     *)
(* HTTP-state hook (useHttp), of the debounce hook (useDebouncedFunction), *)
(* of the UI store (useUiStore), of the AutoComplete component and of the   *)
(* Redux reducer.  A run mounts one of them (`component`); the others stay  *)
(* as constructed.                                                          *)
(*                                                                         *)
(* React is modelled as follows.  `state` is the value React holds for the *)
(* useState cell: every setState(updater) is applied to it in call order.  *)
(* `rendered` is the value of `state` captured by the callbacks of the     *)
(* last committed render (the closures _get, upsert, remove and the        *)
(* on-load effect read it).  `dirty` says a setState happened since that   *)
(* render.  Render commits the current state; the on-load effect runs      *)
(* after it as a step of its own, before the next render.  Requests in     *)
(* flight are answered in any order.                                       *)
(***************************************************************************)
EXTENDS Integers, Sequences, FiniteSets, TLC

\* ---------------------------------------------------------------- bounds
MaxRequests == 2   \* requests sent in one run
MaxTimers == 1     \* pending setTimeout callbacks of the effect cleanup
MaxCalls == 3      \* calls of the debounced function in one run
MaxTime == 6       \* the clock stops here
MaxQueued == 2     \* state updates of the UI store queued between two renders
MaxKeys == 2       \* keystrokes in the input of AutoComplete in one run
MaxDispatches == 3 \* actions given to the Redux reducer in one run

\* the `delay` given to useDebouncedFunction, in units of time
Delay == 2
\* the arguments the debounced function is called with
Args == {"x", "y"}

\* useUiStore: the keys of the state type t and the values a key can hold;
\* "undefined" is the JavaScript value, "absent" says the object has no such key
Keys == {"k1", "k2"}
UiVals == {"a", "b", "undefined"}
Absent == "absent"
\* objects over Keys: states, and the Partial<t> given to update
UiObjects == [Keys -> UiVals \cup {Absent}]
\* the initialState given to useUiStore
uiInitialState == [k \in Keys |-> "a"]
\* localStorage.getItem(key) when nothing is stored
NoItem == [t |-> "null"]

Ids == {1, 2}
Vals == {"a", "b"}
Items == [id : Ids, v : Vals]
Item(id, v) == [id |-> id, v |-> v]
Errors == {"e1"}
\* an error field that holds no error: the code writes false (initial state)
\* or null (at the start of a call) and only ever tests it for truthiness
NoError == "none"

\* ---------------------------------------------------------------- values
Null == [t |-> "null"]
Undefined == [t |-> "undefined"]
List(s) == [t |-> "list", l |-> s]
Obj(i) == [t |-> "obj", o |-> i]
EntityMap(m) == [t |-> "map", m |-> m]

\* Array.isArray(x)
IsArray(d) == d.t = "list"
\* !!x for the values above
Truthy(d) == d.t \in {"list", "obj", "map"}

\* what a server answers a load with (after config.map.get): lists with
\* one id, with two ids and with a repeated id, and a value that is no list
LoadResults ==
  {List(<<Item(1, "a")>>), List(<<Item(1, "a"), Item(2, "a")>>),
   List(<<Item(1, "a"), Item(1, "b")>>), Obj(Item(1, "a"))}
\* payloads of request(): a body, or a falsy value
RequestPayloads == {Null, Obj(Item(1, "a"))}
\* payloads of post, put, patch and remove
Payloads == {Item(1, "b"), Item(2, "b")}

\* a plain store, or an entity store with its unique id field
Configs ==
  {c \in [isEntityStore : BOOLEAN, uniqueId : BOOLEAN, autoLoad : BOOLEAN] :
      c.uniqueId = c.isEntityStore}

\* AutoComplete: the 500 ms of debounceInputChanges, in units of time
KeyDelay == 2
\* AutoComplete: what the input holds after a keystroke
Typed == {"x", "y"}
\* AutoComplete: what getUsers / getPosts resolve to for a search value: the
\* collection filtered by that value
Filtered(collection, searchValue) == [of |-> collection, search |-> searchValue]
\* AutoComplete: initialState
acInitialState ==
  [textValue |-> Null, users |-> Null, posts |-> Null, loading |-> FALSE,
   error |-> NoError]
\* AutoComplete: `let isDebouncing = false; let value = ''` of one render
Closure(isDebouncing, value) == [isDebouncing |-> isDebouncing, value |-> value]

\* Redux reducer: the action type imported from '../types'
SET_GLOBAL_STATE == "SET_GLOBAL_STATE"
\* Redux reducer: the types of the actions dispatched: the one above, the
\* action Redux sends when the store is created, and one of another reducer
ActionTypes == {SET_GLOBAL_STATE, "@@redux/INIT", "OTHER"}
\* Redux reducer: the keys of the state and of a payload: `state` of
\* INITIAL_STATE and one more.  A key holds a value, undefined, or is absent;
\* the object under `state` is named by its ourValue
ReduxKeys == {"state", "extra"}
ReduxVals == {"fred", "wilma", "undefined"}
ReduxObjects == [ReduxKeys -> ReduxVals \cup {Absent}]
\* Redux reducer: {}, also what spreading a missing payload contributes
EmptyObject == [k \in ReduxKeys |-> Absent]
\* Redux reducer: INITIAL_STATE = { state: { ourValue: 'fred' } }
INITIAL_STATE == [k \in ReduxKeys |-> IF k = "state" THEN "fred" ELSE Absent]
\* Redux reducer: the actions; only SET_GLOBAL_STATE has its payload read
Actions ==
  {a \in [type : ActionTypes, payload : ReduxObjects] :
      a.type # SET_GLOBAL_STATE => a.payload = EmptyObject}
NoAction == [type |-> "", payload |-> EmptyObject]

VARIABLES
  component,   \* the hook this run mounts: "store" (Provider), "http" (useHttp),
               \* "debounce" (useDebouncedFunction), "ui" (useUiStore),
               \* "autocomplete" (AutoComplete), "redux" (the reducer)
  config,      \* the configuration apiStoreCreator was called with
  state,       \* useState cell of the Provider
  rendered,    \* `state` as captured by the callbacks of the last render
  dirty,       \* a setState was queued since the last render
  loading,     \* closure-level flag `let loading`
  effectPending, \* the on-load effect has to run for the last render
  cleanup,     \* the on-load effect ran before and left a cleanup
  timers,      \* pending setTimeout(() => loading = false, 1)
  inflight,    \* requests sent and not yet answered, in sending order
  sent,        \* number of requests sent so far in this run
  httpState,   \* useState cell of useHttp
  ev,          \* what the caller observed of the last step (see Event)
  pair,        \* history: an upsert of id k directly followed by remove of k
  hook         \* the state of the mounted component when it is none of the two
               \* above: a record of its cells, refs, timers and histories

\* the variables of the resource store and of useHttp
storeVars == <<config, state, rendered, dirty, loading, effectPending,
               cleanup, timers, inflight, sent, httpState, ev, pair>>
vars == <<component, storeVars, hook>>

\* ---------------------------------------------------------------- state
getStateSrc ==
  [loading |-> FALSE, modifying |-> FALSE, error |-> NoError,
   errorModify |-> NoError, data |-> Null, entities |-> Undefined,
   resMerged |-> Undefined]

getStateEntitySrc ==
  [loading |-> FALSE, modifying |-> FALSE, error |-> NoError,
   errorModify |-> NoError, data |-> Null, entities |-> EntityMap({}),
   resMerged |-> Undefined]

\* stateInitial of useHttp; the key stateNew is absent
stateInitial ==
  [data |-> Null, loading |-> FALSE, error |-> NoError, stateNew |-> Undefined]

InitialState(c) == IF c.isEntityStore THEN getStateEntitySrc ELSE getStateSrc

\* what a caller observes of a step that leaves no other trace: a call to get
\* that sent nothing (op "get"), and a rejected request (op "rejected") with
\* the handler it came from and the state of the promise handed to the caller
Event(op, kind, promise) == [op |-> op, kind |-> kind, promise |-> promise]
NoEvent == Event("", "", "")

\* a request in flight: which handler waits for it ("load" for _get,
\* "upsert", "remove", "http" for useHttp), the body sent (Null when there is
\* none) and the state.data its response handler closed over (`base`).  A load
\* is a POST when it carries a body and a GET otherwise; the verb of an upsert
\* (post, put, patch) decides the URL and the mapper only.
Req(kind, payload, base) == [kind |-> kind, payload |-> payload, base |-> base]

\* the verb of a load request
LoadVerb(r) == IF r.payload = Null THEN "get" ELSE "post"

NoPair == [k |-> 0, up |-> "no", rm |-> "no"]

\* ---------------------------------------------------------------- helpers
\* is.entityConfig(config)
isEntityConfig(c) == c.uniqueId

\* keep, for every id, the last item carrying it
RECURSIVE DedupeLast(_)
DedupeLast(s) ==
  IF s = <<>> THEN <<>>
  ELSE LET rest == DedupeLast(Tail(s))
       IN IF \E j \in 1..Len(rest) : rest[j].id = Head(s).id
          THEN rest ELSE <<Head(s)>> \o rest

\* result.reduce((a, b) => ({ ...a, [b[uniqueId]]: b }), {})
RECURSIVE ToEntities(_)
ToEntities(s) ==
  IF s = <<>> THEN {}
  ELSE LET last == s[Len(s)]
           before == ToEntities(SubSeq(s, 1, Len(s) - 1))
       IN {i \in before : i.id # last.id} \cup {last}

\* mergePayloadWithApiResponse(data, resMapped)
mergePayloadWithApiResponse(data, resMapped) ==
  IF resMapped = Undefined THEN data ELSE resMapped.o

\* mergeDedupeArrays(state.data, resMerged, uniqueId)
mergeDedupeArrays(list, item) ==
  LET merged == DedupeLast(Append(list, item))
  IN [data |-> List(merged), entities |-> EntityMap(ToEntities(merged))]

\* deleteEntities(state.data, data, uniqueId)
deleteEntities(list, item) ==
  LET kept == SelectSeq(list, LAMBDA x : x.id # item.id)
  IN [data |-> List(kept), entities |-> EntityMap(ToEntities(kept))]

\* ---------------------------------------------------------------- Init
\* useDebouncedFunction in a mounted component: useRef(null), no timer set.
\* `now` is the clock, timeoutRef is timeoutRef.current (0 for null), scheduled
\* the timers set and neither fired nor cleared; calls and invoked are the
\* histories of the calls of the debounced function and of the invocations of
\* the wrapped callback
DebounceInit ==
  [now |-> 0, timeoutRef |-> 0, scheduled |-> {}, mounted |-> TRUE,
   calls |-> <<>>, invoked |-> <<>>]

\* JSON.stringify(uiState): a key holding undefined is left out
stringify(obj) ==
  [t |-> "string",
   json |-> [k \in Keys |-> IF obj[k] = "undefined" THEN Absent ELSE obj[k]]]

\* JSON.parse(savedState)
parse(text) == text.json

\* the initializer given to useState in the Provider of useUiStore
uiStateInit(hasPersistId, saved) ==
  IF ~hasPersistId THEN uiInitialState
  ELSE IF saved # NoItem THEN parse(saved) ELSE uiInitialState

\* the Provider of useUiStore(initialState, options) mounted over empty
\* storage.  uiState is the useState cell, rendered its value at the last
\* render, queued the number of updates since, effect says the persisting
\* effect has to run, storage is the item under persistId; persisted is the
\* history of the state written last
UiInit(hasPersistId) ==
  [persistId |-> hasPersistId, uiState |-> uiStateInit(hasPersistId, NoItem),
   rendered |-> uiStateInit(hasPersistId, NoItem), queued |-> 0, effect |-> TRUE,
   storage |-> NoItem, persisted |-> NoItem]

\* AutoComplete after its first render.  state is the useState cell, closures
\* holds `isDebouncing` and `value` of every render so far, timers the pending
\* setTimeout callbacks, pairs the users/posts request pairs issued; keys and
\* issued are the histories of the keystrokes and of the pairs sent
AcInit ==
  [now |-> 0, state |-> acInitialState, dirty |-> FALSE,
   closures |-> <<Closure(FALSE, "")>>, timers |-> {}, pairs |-> <<>>,
   keys |-> <<>>, issued |-> <<>>]

\* the Redux store before its first action: the reducer is given undefined.
\* state is the state of the store, before and last are the histories of the
\* state the last action was applied to and of that action
ReduxInit ==
  [state |-> Undefined, before |-> Undefined, last |-> NoAction, dispatched |-> 0]

\* no such component is mounted
NoHook == [t |-> "none"]

Init ==
  /\ component = "store"
  /\ config \in Configs
  /\ state = InitialState(config)
  /\ rendered = state
  /\ dirty = FALSE
  /\ loading = FALSE
  /\ effectPending = TRUE
  /\ cleanup = FALSE
  /\ timers = 0
  /\ inflight = <<>>
  /\ ev = NoEvent
  /\ pair = NoPair
  /\ sent = 0
  /\ httpState = stateInitial
  /\ hook = NoHook

\* ---------------------------------------------------------------- _get
\* variant: the guard forgets that data is loaded
GetGuard_IgnoresData(refresh) == ~rendered.loading

\* variant: the guard forgets the loading flag
GetGuard_IgnoresLoading(refresh) == rendered.data = Null \/ refresh

\* the guard of _get, on the state its closure captured
GetGuard(refresh) == (rendered.data = Null \/ refresh) /\ ~rendered.loading

\* _get(optionsOverride, postPayload) with options.refresh = refresh
get_(op, refresh, postPayload) ==
  IF GetGuard(refresh)
  THEN /\ sent < MaxRequests
       /\ sent' = sent + 1
       /\ state' = [state EXCEPT !.loading = TRUE, !.error = NoError]
       /\ dirty' = TRUE
       /\ inflight' = Append(inflight,
            IF Truthy(postPayload)
            THEN Req("load", postPayload, Null)
            ELSE Req("load", Null, Null))
       /\ ev' = NoEvent
  ELSE /\ UNCHANGED <<state, dirty, inflight, sent>>
       /\ ev' = IF op = "get" THEN Event("get", "load", "resolved") ELSE NoEvent

\* get(optionsOverride)
get(refresh) ==
  /\ component = "store"
  /\ get_("get", refresh, Null)
  /\ pair' = NoPair
  /\ UNCHANGED hook
  /\ UNCHANGED <<component, config, rendered, loading, effectPending, cleanup, timers, httpState>>

\* refresh(optionsOverride) = get({ ...optionsOverride, refresh: true })
refresh ==
  /\ component = "store"
  /\ get_("refresh", TRUE, Null)
  /\ pair' = NoPair
  /\ UNCHANGED hook
  /\ UNCHANGED <<component, config, rendered, loading, effectPending, cleanup, timers, httpState>>

\* variant: refresh is taken from optionsOverride alone
RequestRefresh_NoDefault(override) == override = "true"

\* { refresh: true, ...optionsOverride }.refresh ; override is "absent",
\* "true" or "false"
RequestRefresh(override) == IF override = "absent" THEN TRUE ELSE override = "true"

\* request(payload, optionsOverride)
request(payload, override) ==
  /\ component = "store"
  /\ get_("request", RequestRefresh(override), payload)
  /\ pair' = NoPair
  /\ UNCHANGED hook
  /\ UNCHANGED <<component, config, rendered, loading, effectPending, cleanup, timers, httpState>>

\* ---------------------------------------------------------------- upsert
\* the entity branch of the response handlers, on the data they closed over
EntityBranch(base) ==
  config.isEntityStore /\ isEntityConfig(config) /\ Truthy(base) /\ IsArray(base)

\* what a response handler keeps of the state.data it closed over: the
\* handlers read it only in the entity branch
Closed(data) == IF EntityBranch(data) THEN data ELSE Null

\* upsert(apiRequest, data, mapFn): the part that runs at the call
upsert(data) ==
  /\ component = "store"
  /\ sent < MaxRequests
  /\ sent' = sent + 1
  /\ state' = [state EXCEPT !.modifying = TRUE, !.errorModify = NoError]
  /\ dirty' = TRUE
  /\ inflight' = Append(inflight, Req("upsert", Obj(data), Closed(rendered.data)))
  /\ ev' = NoEvent
  /\ pair' = IF EntityBranch(rendered.data) /\ ~dirty /\ inflight = <<>>
             THEN [k |-> data.id, up |-> "sent", rm |-> "no"]
             ELSE NoPair
  /\ UNCHANGED hook
  /\ UNCHANGED <<component, config, rendered, loading, effectPending, cleanup, timers, httpState>>

\* post, put and patch differ in the verb, the URL and the mapper they hand to
\* upsert; the response is any of UpsertResponses for each of them
post(data) == upsert(data)
put(data) == upsert(data)
patch(data) == upsert(data)

\* remove(data, optionsOverride): the part that runs at the call
remove(data) ==
  /\ component = "store"
  /\ sent < MaxRequests
  /\ sent' = sent + 1
  /\ state' = [state EXCEPT !.modifying = TRUE, !.errorModify = NoError]
  /\ dirty' = TRUE
  /\ inflight' = Append(inflight, Req("remove", Obj(data), Closed(rendered.data)))
  /\ ev' = NoEvent
  /\ pair' = IF pair.k = data.id /\ pair.rm = "no" /\ EntityBranch(rendered.data)
             THEN [pair EXCEPT !.rm = "sent"]
             ELSE NoPair
  /\ UNCHANGED hook
  /\ UNCHANGED <<component, config, rendered, loading, effectPending, cleanup, timers, httpState>>

\* variant: reset keeps the loaded data
reset_KeepsData ==
  /\ component = "store"
  /\ state' = [InitialState(config) EXCEPT !.data = state.data]
  /\ dirty' = TRUE
  /\ ev' = NoEvent
  /\ pair' = NoPair
  /\ UNCHANGED hook
  /\ UNCHANGED <<component, config, rendered, loading, effectPending, cleanup, timers, inflight, sent, httpState>>

\* reset(): setState(isEntityStore ? getStateEntitySrc : getStateSrc), the
\* function being called by React as an updater that ignores its argument
reset ==
  /\ component = "store"
  /\ state' = InitialState(config)
  /\ dirty' = TRUE
  /\ ev' = NoEvent
  /\ pair' = NoPair
  /\ UNCHANGED hook
  /\ UNCHANGED <<component, config, rendered, loading, effectPending, cleanup, timers, inflight, sent, httpState>>

\* ---------------------------------------------------------------- React
\* a render commits the queued state updates; the callbacks are re-created
\* over the new state and the effect is scheduled (its deps changed)
Render ==
  /\ component = "store"
  /\ dirty
  /\ ~effectPending
  /\ rendered' = state
  /\ dirty' = FALSE
  /\ effectPending' = TRUE
  /\ ev' = NoEvent
  /\ UNCHANGED hook
  /\ UNCHANGED <<component, config, state, loading, cleanup, timers, inflight, sent, httpState, pair>>

\* the condition of the on-load effect
OnLoadGuard ==
  ~config.autoLoad /\ rendered.data = Null /\ ~rendered.loading /\ ~loading

Min(a, b) == IF a < b THEN a ELSE b

\* useEffect(() => { ... }, [state, get]): the cleanup of the previous run,
\* then the body
OnLoadEffect ==
  /\ component = "store"
  /\ effectPending
  /\ effectPending' = FALSE
  /\ cleanup' = TRUE
  /\ timers' = IF cleanup THEN Min(timers + 1, MaxTimers) ELSE timers
  /\ IF OnLoadGuard
     THEN /\ loading' = TRUE
          /\ get_("effect", FALSE, Null)
     ELSE /\ ev' = NoEvent
          /\ UNCHANGED <<loading, state, dirty, inflight, sent>>
  /\ UNCHANGED hook
  /\ UNCHANGED <<component, config, rendered, httpState, pair>>

\* setTimeout(() => { loading = false; }, 1)
CleanupTimer ==
  /\ component = "store"
  /\ timers > 0
  /\ timers' = timers - 1
  /\ loading' = FALSE
  /\ ev' = NoEvent
  /\ UNCHANGED hook
  /\ UNCHANGED <<component, config, state, rendered, dirty, effectPending, cleanup, inflight, sent, httpState, pair>>

\* ---------------------------------------------------------------- responses
RemoveAt(s, i) == SubSeq(s, 1, i - 1) \o SubSeq(s, i + 1, Len(s))

\* variant: the entities of a load are spread over those already held
LoadSuccessState_KeepsEntities(st, result) ==
  LET withData == [st EXCEPT !.loading = FALSE, !.data = result, !.errorModify = NoError]
  IN IF config.isEntityStore /\ isEntityConfig(config) /\ config.uniqueId /\ IsArray(result)
     THEN LET entities == ToEntities(result.l)
              kept == {e \in st.entities.m : \A n \in entities : n.id # e.id}
          IN [withData EXCEPT !.entities = EntityMap(kept \cup entities)]
     ELSE withData

\* the state update of httpRequest.then(...) in _get
LoadSuccessState(st, result) ==
  LET withData == [st EXCEPT !.loading = FALSE, !.data = result, !.errorModify = NoError]
  IN IF config.isEntityStore /\ isEntityConfig(config) /\ config.uniqueId /\ IsArray(result)
     THEN [withData EXCEPT !.entities = EntityMap(ToEntities(result.l))]
     ELSE withData

\* variant: a failed load also drops the data
LoadFailureState_DropsData(st, error) ==
  [st EXCEPT !.loading = FALSE, !.error = error, !.data = Null]

\* the state update of httpRequest.catch(...) in _get
LoadFailureState(st, error) == [st EXCEPT !.loading = FALSE, !.error = error]

\* the state update of apiRequest.then(...) in upsert
UpsertSuccessState(st, r, resMapped) ==
  LET resMerged == mergePayloadWithApiResponse(r.payload.o, resMapped)
  IN IF EntityBranch(r.base)
     THEN LET delta == mergeDedupeArrays(r.base.l, resMerged)
          IN [st EXCEPT !.modifying = FALSE, !.data = delta.data, !.entities = delta.entities]
     ELSE [st EXCEPT !.modifying = FALSE, !.resMerged = Obj(resMerged)]

\* the state update of apiRequest.catch(...) in upsert
UpsertFailureState(st, error) == [st EXCEPT !.modifying = FALSE, !.error = error]

\* the state update of api.delete(url).then(...) in remove
RemoveSuccessState(st, r, body) ==
  IF EntityBranch(r.base)
  THEN LET updated == deleteEntities(r.base.l, r.payload.o)
       IN [st EXCEPT !.modifying = FALSE, !.data = updated.data, !.entities = updated.entities]
  ELSE [st EXCEPT !.modifying = FALSE, !.data = IF Truthy(body) THEN body ELSE Null]

\* variant: a failed remove empties the store
RemoveFailureState_ClearsData(st, error) ==
  [st EXCEPT !.modifying = FALSE, !.error = error, !.data = Null]

\* the state update of api.delete(url).catch(...) in remove
RemoveFailureState(st, error) == [st EXCEPT !.modifying = FALSE, !.error = error]

\* variant: _get swallows the rejection like the other operations
PromiseOnFailure_Swallows(kind) == "resolved"

\* what the promise handed to the caller does when the request is rejected
PromiseOnFailure(kind) == IF kind = "load" THEN "rejected" ELSE "resolved"

\* what a server answers an upsert of `item` with (after the mapper)
UpsertResponses(item) == {Undefined, Obj(Item(item.id, "a"))}
\* what a server answers a DELETE of `item` with
DeleteResponses(item) == {Undefined, Obj(item)}

LoadResolved(i) ==
  /\ component = "store"
  /\ i \in 1..Len(inflight)
  /\ inflight[i].kind = "load"
  /\ \E result \in LoadResults : state' = LoadSuccessState(state, result)
  /\ ev' = NoEvent
  /\ pair' = NoPair

UpsertResolved(i) ==
  /\ component = "store"
  /\ i \in 1..Len(inflight)
  /\ inflight[i].kind = "upsert"
  /\ \E resMapped \in UpsertResponses(inflight[i].payload.o) :
        state' = UpsertSuccessState(state, inflight[i], resMapped)
  /\ ev' = NoEvent
  /\ pair' = IF pair.up = "sent" THEN [pair EXCEPT !.up = "ok"] ELSE NoPair

RemoveResolved(i) ==
  /\ component = "store"
  /\ i \in 1..Len(inflight)
  /\ inflight[i].kind = "remove"
  /\ \E body \in DeleteResponses(inflight[i].payload.o) :
        state' = RemoveSuccessState(state, inflight[i], body)
  /\ ev' = NoEvent
  /\ pair' = IF pair.rm = "sent" THEN [pair EXCEPT !.rm = "ok"] ELSE NoPair

Rejected(i, error) ==
  /\ component = "store"
  /\ i \in 1..Len(inflight)
  /\ state' = CASE inflight[i].kind = "load" -> LoadFailureState(state, error)
                [] inflight[i].kind = "upsert" -> UpsertFailureState(state, error)
                [] inflight[i].kind = "remove" -> RemoveFailureState(state, error)
  /\ ev' = Event("rejected", inflight[i].kind, PromiseOnFailure(inflight[i].kind))
  /\ pair' = NoPair

\* a response arrives for the i-th request in flight
Response(i) ==
  /\ i \in 1..Len(inflight)
  /\ inflight' = RemoveAt(inflight, i)
  /\ dirty' = TRUE
  /\ UNCHANGED hook
  /\ UNCHANGED <<component, config, rendered, loading, effectPending, cleanup, timers, sent, httpState>>
  /\ \/ LoadResolved(i)
     \/ UpsertResolved(i)
     \/ RemoveResolved(i)
     \/ \E error \in Errors : Rejected(i, error)

\* ---------------------------------------------------------------- useHttp
Urls == {"apiUrl", "apiUrlOverride"}
Url(u) == [t |-> "url", u |-> u]
HttpBodies == {Obj(Item(1, "a")), Obj(Item(2, "a"))}
Messages == {"Network Error"}

\* a Partial<ApiState<t>>; a key that is not given is "absent"
Delta(isloading, data, error) == [loading |-> isloading, data |-> data, error |-> error]

\* stateChange(stateNew) = setState(stateOld => ({ ...stateOld, stateNew }))
stateChange(st, stateNew) == [st EXCEPT !.stateNew = stateNew]

\* useHttp: get(apiUrlOverride), up to the request being sent
httpGet(url) ==
  /\ component = "http"
  /\ sent < MaxRequests
  /\ sent' = sent + 1
  /\ httpState' = stateChange(httpState, Delta(TRUE, Undefined, "absent"))
  /\ inflight' = Append(inflight, Req("http", Url(url), Null))
  /\ ev' = NoEvent
  /\ UNCHANGED hook
  /\ UNCHANGED <<component, config, state, rendered, dirty, loading, effectPending,
                 cleanup, timers, pair>>

\* useHttp: the handlers given to axios.get(...).then(onFulfilled, onRejected)
httpResponse(i) ==
  /\ component = "http"
  /\ i \in 1..Len(inflight)
  /\ inflight[i].kind = "http"
  /\ \/ \E body \in HttpBodies :
          /\ httpState' = stateChange(httpState, Delta(FALSE, body, "absent"))
          /\ ev' = NoEvent
     \/ \E message \in Messages :
          /\ httpState' = stateChange(httpState, Delta(FALSE, Undefined, message))
          /\ ev' = Event("rejected", "http", "resolved")
  /\ inflight' = RemoveAt(inflight, i)
  /\ UNCHANGED hook
  /\ UNCHANGED <<component, config, state, rendered, dirty, loading, effectPending,
                 cleanup, timers, sent, pair>>

\* ---------------------------------------------------------------- useDebouncedFunction
\* a timer set by setTimeout: its id (the number of the call that set it), the
\* arguments its callback closed over and the time it is due
Timer(id, args, due) == [id |-> id, args |-> args, due |-> due]

\* clearTimeout(id); no timer has id 0, so clearTimeout(null || 0) clears nothing
clearTimeout(pending, id) == {t \in pending : t.id # id}

\* variant: the previous timer is not cleared
debouncedFunction_NoClear(args) ==
  /\ component = "debounce"
  /\ Len(hook.calls) < MaxCalls
  /\ hook' = [hook EXCEPT
       !.scheduled = hook.scheduled
                       \cup {Timer(Len(hook.calls) + 1, args, hook.now + Delay)},
       !.timeoutRef = Len(hook.calls) + 1,
       !.calls = Append(hook.calls,
                        [args |-> args, at |-> hook.now, mounted |-> hook.mounted])]
  /\ UNCHANGED <<component, storeVars>>

\* variant: a call made while a timer is pending keeps that timer's arguments
debouncedFunction_KeepsArgs(args) ==
  /\ component = "debounce"
  /\ Len(hook.calls) < MaxCalls
  /\ LET pending == {t \in hook.scheduled : t.id = hook.timeoutRef}
         kept == IF pending = {} THEN args ELSE (CHOOSE t \in pending : TRUE).args
     IN hook' = [hook EXCEPT
          !.scheduled = clearTimeout(hook.scheduled, hook.timeoutRef)
                          \cup {Timer(Len(hook.calls) + 1, kept, hook.now + Delay)},
          !.timeoutRef = Len(hook.calls) + 1,
          !.calls = Append(hook.calls,
                           [args |-> args, at |-> hook.now, mounted |-> hook.mounted])]
  /\ UNCHANGED <<component, storeVars>>

\* debouncedFunction(...args): clear the timer of the ref, set a new one
debouncedFunction(args) ==
  /\ component = "debounce"
  /\ Len(hook.calls) < MaxCalls
  /\ hook' = [hook EXCEPT
       !.scheduled = clearTimeout(hook.scheduled, hook.timeoutRef)
                       \cup {Timer(Len(hook.calls) + 1, args, hook.now + Delay)},
       !.timeoutRef = Len(hook.calls) + 1,
       !.calls = Append(hook.calls,
                        [args |-> args, at |-> hook.now, mounted |-> hook.mounted])]
  /\ UNCHANGED <<component, storeVars>>

\* the callback given to setTimeout runs: func(...args)
TimerFires ==
  /\ component = "debounce"
  /\ \E t \in hook.scheduled :
        /\ t.due <= hook.now
        /\ hook' = [hook EXCEPT
             !.scheduled = hook.scheduled \ {t},
             !.invoked = Append(hook.invoked,
                                [call |-> t.id, args |-> t.args, at |-> hook.now,
                                 mounted |-> hook.mounted])]
  /\ UNCHANGED <<component, storeVars>>

\* variant: the teardown leaves the pending timer alone
debounceUnmount_NoClear ==
  /\ component = "debounce"
  /\ hook.mounted
  /\ hook' = [hook EXCEPT !.mounted = FALSE]
  /\ UNCHANGED <<component, storeVars>>

\* the owning component unmounts: the cleanup of the effect runs
debounceUnmount ==
  /\ component = "debounce"
  /\ hook.mounted
  /\ hook' = [hook EXCEPT
       !.mounted = FALSE,
       !.scheduled = clearTimeout(hook.scheduled, hook.timeoutRef)]
  /\ UNCHANGED <<component, storeVars>>

\* time passes; a timer that is due runs before the clock moves on.  In
\* AutoComplete only keystrokes and timers read the clock: it stops when there
\* are none to come
Tick ==
  /\ component \in {"debounce", "autocomplete"}
  /\ hook.now < MaxTime
  /\ component = "autocomplete" => (hook.timers # {} \/ Len(hook.keys) < MaxKeys)
  /\ \A t \in (IF component = "debounce" THEN hook.scheduled ELSE hook.timers) :
        t.due > hook.now
  /\ hook' = [hook EXCEPT !.now = hook.now + 1]
  /\ UNCHANGED <<component, storeVars>>

\* ---------------------------------------------------------------- useUiStore
\* { ...stateSrc, ...state }
Merge(stateSrc, partial) ==
  [k \in Keys |-> IF partial[k] # Absent THEN partial[k] ELSE stateSrc[k]]

\* variant: update merges into the state of the last render
uiUpdate_FromRendered(partial) ==
  /\ component = "ui"
  /\ hook.queued < MaxQueued
  /\ hook' = [hook EXCEPT !.uiState = Merge(hook.rendered, partial),
                          !.queued = hook.queued + 1]
  /\ UNCHANGED <<component, storeVars>>

\* update(state) = setUiState(stateSrc => ({ ...stateSrc, ...state })); React
\* runs the queued updaters in call order, each on the result of the one before
uiUpdate(partial) ==
  /\ component = "ui"
  /\ hook.queued < MaxQueued
  /\ hook' = [hook EXCEPT !.uiState = Merge(hook.uiState, partial),
                          !.queued = hook.queued + 1]
  /\ UNCHANGED <<component, storeVars>>

\* reset() = setUiState(initialState)
uiReset ==
  /\ component = "ui"
  /\ hook.queued < MaxQueued
  /\ hook' = [hook EXCEPT !.uiState = uiInitialState,
                          !.queued = hook.queued + 1]
  /\ UNCHANGED <<component, storeVars>>

\* the Provider re-renders with the queued updates applied
uiRender ==
  /\ component = "ui"
  /\ ~hook.effect
  /\ hook.queued > 0
  /\ hook' = [hook EXCEPT !.rendered = hook.uiState,
                          !.queued = 0,
                          !.effect = (hook.uiState # hook.rendered)]
  /\ UNCHANGED <<component, storeVars>>

\* the effect on [uiState]: localStorage.setItem(persistId, JSON.stringify(uiState))
uiPersist ==
  /\ component = "ui"
  /\ hook.effect
  /\ hook' = IF hook.persistId
             THEN [hook EXCEPT !.effect = FALSE,
                               !.storage = stringify(hook.rendered),
                               !.persisted = hook.rendered]
             ELSE [hook EXCEPT !.effect = FALSE]
  /\ UNCHANGED <<component, storeVars>>

\* the Provider is constructed again: useState runs its initializer
uiMount ==
  /\ component = "ui"
  /\ hook' = [hook EXCEPT !.uiState = uiStateInit(hook.persistId, hook.storage),
                          !.rendered = uiStateInit(hook.persistId, hook.storage),
                          !.queued = 0,
                          !.effect = TRUE]
  /\ UNCHANGED <<component, storeVars>>

\* ---------------------------------------------------------------- AutoComplete
\* a users/posts pair sent by one timer: the search value, the state of each
\* request ("pending", "done", "failed") and whether Promise.all has settled
Pair(value) == [value |-> value, users |-> "pending", posts |-> "pending", settled |-> FALSE]
Other(which) == IF which = "users" THEN "posts" ELSE "users"

\* debounceInputChanges(e) with e.target.value = v, on the closure of the last
\* render
debounceInputChanges(v) ==
  LET cur == Len(hook.closures) IN
  /\ component = "autocomplete"
  /\ Len(hook.keys) < MaxKeys
  /\ hook' = [hook EXCEPT
       !.closures[cur] = Closure(TRUE, v),
       !.state = [hook.state EXCEPT !.textValue = v, !.loading = TRUE],
       !.dirty = TRUE,
       !.timers = IF ~hook.closures[cur].isDebouncing
                  THEN hook.timers \cup {[closure |-> cur, due |-> hook.now + KeyDelay]}
                  ELSE hook.timers,
       !.keys = Append(hook.keys, [value |-> v, at |-> hook.now, closure |-> cur])]
  /\ UNCHANGED <<component, storeVars>>

\* AutoComplete re-renders: the function body runs again, with a fresh
\* `isDebouncing`, a fresh `value` and a new handler for the input.  When the
\* locals of the render before were never written, the new ones equal them
\* and `closures` keeps the one entry for both
acRender ==
  /\ component = "autocomplete"
  /\ hook.dirty
  /\ hook' = [hook EXCEPT
       !.dirty = FALSE,
       !.closures = IF hook.closures[Len(hook.closures)] = Closure(FALSE, "")
                    THEN hook.closures
                    ELSE Append(hook.closures, Closure(FALSE, ""))]
  /\ UNCHANGED <<component, storeVars>>

\* the callback given to setTimeout runs: getUsers(value) and getPosts(value)
\* are sent, with the `value` of the closure that set the timer
acTimerFires ==
  /\ component = "autocomplete"
  /\ \E t \in hook.timers :
        /\ t.due <= hook.now
        /\ hook' = [hook EXCEPT
             !.timers = hook.timers \ {t},
             !.pairs = Append(hook.pairs, Pair(hook.closures[t.closure].value)),
             !.issued = Append(hook.issued,
                               [value |-> hook.closures[t.closure].value,
                                at |-> hook.now])]
  /\ UNCHANGED <<component, storeVars>>

\* variant: a pair that is not the last one issued is dropped as stale
acFulfilled_DropsStale(p, which) ==
  /\ component = "autocomplete"
  /\ p \in 1..Len(hook.pairs)
  /\ hook.pairs[p][which] = "pending"
  /\ hook' = IF hook.pairs[p][Other(which)] = "done" /\ ~hook.pairs[p].settled
             THEN [hook EXCEPT
                     !.pairs[p][which] = "done",
                     !.pairs[p].settled = TRUE,
                     !.state = IF p = Len(hook.pairs)
                               THEN [hook.state EXCEPT
                                       !.loading = FALSE,
                                       !.users = Filtered("users", hook.pairs[p].value),
                                       !.posts = Filtered("posts", hook.pairs[p].value)]
                               ELSE hook.state,
                     !.dirty = TRUE]
             ELSE [hook EXCEPT !.pairs[p][which] = "done"]
  /\ UNCHANGED <<component, storeVars>>

\* one request of pair p is answered; when both are, Promise.all is fulfilled
\* and its handler puts the users and the posts into the state
acFulfilled(p, which) ==
  /\ component = "autocomplete"
  /\ p \in 1..Len(hook.pairs)
  /\ hook.pairs[p][which] = "pending"
  /\ hook' = IF hook.pairs[p][Other(which)] = "done" /\ ~hook.pairs[p].settled
             THEN [hook EXCEPT
                     !.pairs[p][which] = "done",
                     !.pairs[p].settled = TRUE,
                     !.state = [hook.state EXCEPT
                                  !.loading = FALSE,
                                  !.users = Filtered("users", hook.pairs[p].value),
                                  !.posts = Filtered("posts", hook.pairs[p].value)],
                     !.dirty = TRUE]
             ELSE [hook EXCEPT !.pairs[p][which] = "done"]
  /\ UNCHANGED <<component, storeVars>>

\* one request of pair p fails; the first failure rejects Promise.all, whose
\* handler puts the error into the state
acRejected(p, which, error) ==
  /\ component = "autocomplete"
  /\ p \in 1..Len(hook.pairs)
  /\ hook.pairs[p][which] = "pending"
  /\ hook' = IF ~hook.pairs[p].settled
             THEN [hook EXCEPT
                     !.pairs[p][which] = "failed",
                     !.pairs[p].settled = TRUE,
                     !.state = [hook.state EXCEPT !.loading = FALSE, !.error = error],
                     !.dirty = TRUE]
             ELSE [hook EXCEPT !.pairs[p][which] = "failed"]
  /\ UNCHANGED <<component, storeVars>>

\* ---------------------------------------------------------------- reducer
\* variant: an action of another type leaves the state as it is
reducer_KeepsState(st, action) ==
  LET current == IF st = Undefined THEN INITIAL_STATE ELSE st.o
  IN IF action.type = SET_GLOBAL_STATE
     THEN Obj([k \in ReduxKeys |->
                 IF action.payload[k] # Absent THEN action.payload[k] ELSE current[k]])
     ELSE Obj(current)

\* export default (state = INITIAL_STATE, action) => { switch (action.type) ... }
reducer(st, action) ==
  LET current == IF st = Undefined THEN INITIAL_STATE ELSE st.o
  IN IF action.type = SET_GLOBAL_STATE
     THEN Obj([k \in ReduxKeys |->
                 IF action.payload[k] # Absent THEN action.payload[k] ELSE current[k]])
     ELSE Obj(INITIAL_STATE)

\* the store gives the reducer its state and an action and keeps the result
dispatch(action) ==
  /\ component = "redux"
  /\ hook.dispatched < MaxDispatches
  /\ hook' = [state |-> reducer(hook.state, action), before |-> hook.state,
              last |-> action, dispatched |-> hook.dispatched + 1]
  /\ UNCHANGED <<component, storeVars>>

\* ---------------------------------------------------------------- Next
Next ==
  \/ \E r \in BOOLEAN : get(r)
  \/ refresh
  \/ \E payload \in RequestPayloads, override \in {"absent", "true", "false"} :
        request(payload, override)
  \/ \E data \in Payloads : post(data)
  \/ \E data \in Payloads : put(data)
  \/ \E data \in Payloads : patch(data)
  \/ \E data \in Payloads : remove(data)
  \/ reset
  \/ Render
  \/ OnLoadEffect
  \/ CleanupTimer
  \/ \E i \in 1..MaxRequests : Response(i)

\* the resource store, from its construction
Spec == Init /\ [][Next]_vars

\* an entity store whose first load has answered a list and has been rendered,
\* with its effect run and its cleanup timer fired
InitLoaded ==
  /\ component = "store"
  /\ config \in {c \in Configs : c.isEntityStore /\ ~c.autoLoad}
  /\ \E result \in {r \in LoadResults : IsArray(r)} :
        state = LoadSuccessState(
                  [InitialState(config) EXCEPT !.loading = TRUE, !.error = NoError],
                  result)
  /\ rendered = state
  /\ dirty = FALSE
  /\ loading = FALSE
  /\ effectPending = FALSE
  /\ cleanup = TRUE
  /\ timers = 0
  /\ inflight = <<>>
  /\ ev = NoEvent
  /\ pair = NoPair
  /\ sent = 0
  /\ httpState = stateInitial
  /\ hook = NoHook

SpecLoaded == InitLoaded /\ [][Next]_vars

\* a component that calls useHttp
InitHttp ==
  /\ component = "http"
  /\ config = [isEntityStore |-> FALSE, uniqueId |-> FALSE, autoLoad |-> FALSE]
  /\ state = InitialState(config)
  /\ rendered = state
  /\ dirty = FALSE
  /\ loading = FALSE
  /\ effectPending = FALSE
  /\ cleanup = FALSE
  /\ timers = 0
  /\ inflight = <<>>
  /\ ev = NoEvent
  /\ pair = NoPair
  /\ sent = 0
  /\ httpState = stateInitial
  /\ hook = NoHook

NextHttp ==
  \/ \E url \in Urls : httpGet(url)
  \/ \E i \in 1..MaxRequests : httpResponse(i)

\* either hook, every operation that returns a promise
SpecAsync == (Init \/ InitHttp) /\ [][Next \/ NextHttp]_vars

\* no store and no useHttp in this run: their variables stay as constructed
StoreIdle ==
  /\ config = [isEntityStore |-> FALSE, uniqueId |-> FALSE, autoLoad |-> FALSE]
  /\ state = InitialState(config)
  /\ rendered = state
  /\ dirty = FALSE
  /\ loading = FALSE
  /\ effectPending = FALSE
  /\ cleanup = FALSE
  /\ timers = 0
  /\ inflight = <<>>
  /\ ev = NoEvent
  /\ pair = NoPair
  /\ sent = 0
  /\ httpState = stateInitial

\* a component that calls useDebouncedFunction(func, Delay)
InitDebounce ==
  /\ component = "debounce"
  /\ StoreIdle
  /\ hook = DebounceInit

NextDebounce ==
  \/ \E args \in Args : debouncedFunction(args)
  \/ TimerFires
  \/ debounceUnmount
  \/ Tick

SpecDebounce == InitDebounce /\ [][NextDebounce]_vars

\* a Provider of useUiStore(initialState, options), mounted over empty storage
InitUi ==
  /\ component = "ui"
  /\ StoreIdle
  /\ \E hasPersistId \in BOOLEAN : hook = UiInit(hasPersistId)

NextUi ==
  \/ \E partial \in UiObjects : uiUpdate(partial)
  \/ uiReset
  \/ uiRender
  \/ uiPersist
  \/ uiMount

SpecUi == InitUi /\ [][NextUi]_vars

\* a mounted AutoComplete
InitAutoComplete ==
  /\ component = "autocomplete"
  /\ StoreIdle
  /\ hook = AcInit

NextAutoComplete ==
  \/ \E v \in Typed : debounceInputChanges(v)
  \/ acRender
  \/ acTimerFires
  \/ \E p \in 1..MaxKeys, which \in {"users", "posts"} : acFulfilled(p, which)
  \/ \E p \in 1..MaxKeys, which \in {"users", "posts"}, error \in Errors :
        acRejected(p, which, error)
  \/ Tick

SpecAutoComplete == InitAutoComplete /\ [][NextAutoComplete]_vars

\* a Redux store over the reducer
InitRedux ==
  /\ component = "redux"
  /\ StoreIdle
  /\ hook = ReduxInit

NextRedux == \E action \in Actions : dispatch(action)

SpecRedux == InitRedux /\ [][NextRedux]_vars

\* ---------------------------------------------------------------- properties
IsLoad(r) == r.kind = "load"
LoadInFlight == \E i \in 1..Len(inflight) : IsLoad(inflight[i])
Last(s) == s[Len(s)]
IdsOf(list) == {list[j].id : j \in 1..Len(list)}

\* C1: once the state the callbacks see has data (state.data is not null), a
\* call to get without refresh sends no request.
C1_LoadedGetSendsNothing ==
  [][(get(FALSE) /\ rendered.data # Null) => (inflight' = inflight /\ sent' = sent)]_vars

\* C1 witness: get was called without effect on the network while data was loaded
C1_Witness ==
  /\ ev = Event("get", "load", "resolved")
  /\ rendered.data # Null
  /\ ~rendered.loading
  /\ sent = 1
  /\ inflight = <<>>

\* C2 as stated: while a load is in flight, a call to get sends no request
C2_Original ==
  [][\A r \in BOOLEAN : (get(r) /\ LoadInFlight) => inflight' = inflight]_vars

\* C2 amended: once a render has committed loading = true, so that the
\* callbacks see state.loading, a call to get (with or without refresh) sends
\* no request.
C2_RenderedLoadingGetSendsNothing ==
  [][\A r \in BOOLEAN :
       (get(r) /\ rendered.loading) => (inflight' = inflight /\ sent' = sent)]_vars

\* C2 witness: get(refresh) was called and sent nothing while the load was in flight
C2_Witness ==
  /\ ev = Event("get", "load", "resolved")
  /\ rendered.loading
  /\ rendered.data = Null
  /\ LoadInFlight

\* C3 as stated: a rejected post, put, patch or remove leaves modifying false
\* and errorModify holding the error
C3_ModifyRejectionSetsErrorModify ==
  (ev.op = "rejected" /\ ev.kind \in {"upsert", "remove"})
    => (~state.modifying /\ state.errorModify \in Errors)

\* C4: a rejected get, request or refresh sets loading to false and error to the
\* error, and leaves data, entities, modifying and errorModify as they were.
C4_LoadRejectionFrame ==
  [][\A i \in 1..MaxRequests : \A error \in Errors :
       (Response(i) /\ Rejected(i, error) /\ IsLoad(inflight[i]))
         => /\ ~state'.loading
            /\ state'.error = error
            /\ state'.data = state.data
            /\ state'.entities = state.entities
            /\ state'.modifying = state.modifying
            /\ state'.errorModify = state.errorModify
            /\ state'.resMerged = state.resMerged]_vars

\* C4 witness: a load was rejected while a modifying request was in flight
C4_Witness ==
  /\ ev = Event("rejected", "load", "rejected")
  /\ state.error \in Errors
  /\ ~state.loading
  /\ state.modifying

\* C5 as stated: data and an error field are never populated together
C5_Original ==
  ~(state.data # Null /\ (state.error \in Errors \/ state.errorModify \in Errors))

\* C5 amended: no single response populates both sides: a rejection sets an
\* error field and leaves data and entities as they were, a successful response
\* sets neither error nor errorModify.
C5_ResponsePopulatesOneSide ==
  [][\A i \in 1..MaxRequests :
       /\ (Response(i) /\ \E error \in Errors : Rejected(i, error))
            => /\ state'.data = state.data
               /\ state'.entities = state.entities
               /\ (state'.error \in Errors \/ state'.errorModify \in Errors)
       /\ (Response(i) /\ (LoadResolved(i) \/ UpsertResolved(i) \/ RemoveResolved(i)))
            => /\ state'.error = state.error
               /\ state'.errorModify \notin Errors]_vars

\* C5 witness: a refresh was rejected after a successful load; the data stays
\* next to the error
C5_Witness ==
  /\ ev.op = "rejected"
  /\ state.data \in LoadResults
  /\ state.error \in Errors
  /\ ~state.loading

\* C6 as stated: after a rejected load the on-load effect sends no request
C6_NoRetry ==
  [][(OnLoadEffect /\ rendered.error \in Errors) => sent' = sent]_vars

\* C7 as stated: an upsert of id k directly followed by remove of k, both
\* answered successfully, leaves no entry for k in data or entities
C7_UpsertThenRemoveLeavesNoEntry ==
  (pair.up = "ok" /\ pair.rm = "ok")
    => /\ IsArray(state.data) => pair.k \notin IdsOf(state.data.l)
       /\ \A item \in state.entities.m : item.id # pair.k

\* C8 as stated: outside the entity branch a successful post, put or patch
\* replaces data by the response merged with the payload and clears modifying
C8_UpsertReplacesData ==
  [][\A i \in 1..MaxRequests :
       (Response(i) /\ UpsertResolved(i) /\ ~EntityBranch(inflight[i].base))
         => /\ ~state'.modifying
            /\ \E resMapped \in UpsertResponses(inflight[i].payload.o) :
                 state'.data = Obj(mergePayloadWithApiResponse(inflight[i].payload.o, resMapped))]_vars

\* C9 as stated: request always sends one POST carrying the payload
C9_Original ==
  [][\A payload \in RequestPayloads, override \in {"absent", "true", "false"} :
       request(payload, override)
         => /\ Len(inflight') = Len(inflight) + 1
            /\ IsLoad(Last(inflight'))
            /\ LoadVerb(Last(inflight')) = "post"
            /\ Last(inflight').payload = payload]_vars

\* C9 amended: request reloads unless the rendered state is loading or
\* optionsOverride sets refresh to false on loaded data; it then sends exactly
\* one request, a POST carrying the payload when the payload is truthy and a GET
\* otherwise; a successful response to it is loaded into the store.
C9_RequestReloads ==
  [][/\ \A payload \in RequestPayloads, override \in {"absent", "true", "false"} :
          request(payload, override)
            => IF ~rendered.loading /\ (rendered.data = Null \/ override # "false")
               THEN /\ inflight' = Append(inflight, Req("load", payload, Null))
                    /\ LoadVerb(Last(inflight')) = (IF Truthy(payload) THEN "post" ELSE "get")
                    /\ sent' = sent + 1
               ELSE inflight' = inflight /\ sent' = sent
     /\ \A i \in 1..MaxRequests :
          (Response(i) /\ LoadResolved(i))
            => state'.data \in LoadResults /\ ~state'.loading]_vars

\* C9 witness: request has just forced a reload of loaded data with a POST:
\* the callbacks saw loaded data, the call's setState is not rendered yet and
\* the POST is the only request in flight
C9_Witness ==
  /\ rendered.data # Null
  /\ ~rendered.loading
  /\ dirty
  /\ state.loading
  /\ Len(inflight) = 1
  /\ IsLoad(Last(inflight))
  /\ LoadVerb(Last(inflight)) = "post"

\* C10 as stated: the promise handed to the caller never rejects
C10_Original == ev.op = "rejected" => ev.promise = "resolved"

\* C10 amended: when the request fails, the promise of post, put, patch, remove
\* and of useHttp's get is fulfilled, and the promise of the store's get,
\* request and refresh rejects.
C10_OnlyLoadsRethrow ==
  ev.op = "rejected" => (ev.promise = "rejected" <=> ev.kind = "load")

\* C10 witness: useHttp's get failed and its promise was fulfilled
C10_Witness == ev = Event("rejected", "http", "resolved")

\* C11: right after reset is applied the store has its empty initial shape:
\* loading and modifying false, error and errorModify unset, data null and, in
\* entity mode, entities empty
C11_ResetRestoresInitialShape ==
  [][reset => /\ ~state'.loading
              /\ ~state'.modifying
              /\ state'.error = NoError
              /\ state'.errorModify = NoError
              /\ state'.data = Null
              /\ (config.isEntityStore => state'.entities = EntityMap({}))]_vars

\* C11 witness: an entity store that rendered a loaded list has just been
\* reset (no other operation takes a loaded entity list back to null)
C11_Witness ==
  /\ config.isEntityStore
  /\ IsArray(rendered.data)
  /\ dirty
  /\ state = getStateEntitySrc

\* the invocations of the wrapped callback made for the j-th call
InvocationsOf(j) == {i \in 1..Len(hook.invoked) : hook.invoked[i].call = j}
\* the j-th call was followed by another call less than Delay later
FollowedInBurst(j) == j < Len(hook.calls) /\ hook.calls[j + 1].at < hook.calls[j].at + Delay
\* the j-th call ends a burst: no call follows it within Delay
LastOfBurst(j) == j = Len(hook.calls) \/ hook.calls[j + 1].at > hook.calls[j].at + Delay

\* C12: at most one timer is pending per debounced function instance, and it
\* is the timer of the latest call: every call cancelled the pending timer of
\* the call before it
C12_OnePendingTimer ==
  /\ Cardinality(hook.scheduled) <= 1
  /\ \A t \in hook.scheduled : t.id = Len(hook.calls) /\ t.id = hook.timeoutRef

\* C12 witness: a second call was made while the timer of the first was
\* pending, and one timer is pending
C12_Witness ==
  /\ Len(hook.calls) >= 2
  /\ hook.calls[2].at < hook.calls[1].at + Delay
  /\ Cardinality(hook.scheduled) = 1

\* C13: every invocation of the wrapped callback is made Delay after a call
\* that no other call followed within Delay, with the arguments of that call;
\* no call is invoked twice, and (while the component stays mounted) the last
\* call of every burst is invoked once Delay has passed
C13_BurstCollapsesToTrailingCall ==
  /\ \A i \in 1..Len(hook.invoked) :
        /\ hook.invoked[i].args = hook.calls[hook.invoked[i].call].args
        /\ hook.invoked[i].at = hook.calls[hook.invoked[i].call].at + Delay
        /\ ~FollowedInBurst(hook.invoked[i].call)
  /\ \A j \in 1..Len(hook.calls) :
        /\ Cardinality(InvocationsOf(j)) <= 1
        /\ (hook.mounted /\ LastOfBurst(j) /\ hook.now > hook.calls[j].at + Delay)
              => Cardinality(InvocationsOf(j)) = 1

\* C13 witness: a burst of two calls with different arguments, the second
\* later than the first and less than Delay after it, has been invoked once,
\* with the arguments of the second call
C13_Witness ==
  /\ Len(hook.calls) = 2
  /\ hook.calls[1].args # hook.calls[2].args
  /\ hook.calls[1].at < hook.calls[2].at
  /\ hook.calls[2].at < hook.calls[1].at + Delay
  /\ hook.now > hook.calls[2].at + Delay
  /\ Len(hook.invoked) = 1
  /\ hook.invoked[1].args = hook.calls[2].args

\* C14: after the teardown no timer of a call made before it is pending, and
\* the wrapped callback is never invoked after the teardown for a call made
\* before it
C14_TeardownCancelsPendingCall ==
  /\ ~hook.mounted => \A t \in hook.scheduled : ~hook.calls[t.id].mounted
  /\ \A i \in 1..Len(hook.invoked) :
        ~hook.invoked[i].mounted => ~hook.calls[hook.invoked[i].call].mounted

\* C14 witness: the component was torn down while the timer of its only call
\* was pending; the time the timer was due has passed without an invocation
C14_Witness ==
  /\ ~hook.mounted
  /\ Len(hook.calls) = 1
  /\ hook.calls[1].mounted
  /\ hook.now > hook.calls[1].at + Delay
  /\ hook.invoked = <<>>

\* C15: update(partial) is a shallow merge into the current state, the one
\* that holds the updates queued before it: afterwards every key of the partial
\* has the partial's value and every other key the value it had
C15_UpdateShallowMerge ==
  [][\A partial \in UiObjects :
       uiUpdate(partial)
         => \A k \in Keys :
              hook'.uiState[k] = IF partial[k] # Absent THEN partial[k] ELSE hook.uiState[k]]_vars

\* C15 witness: two updates are queued since the last render and both keys
\* differ from the rendered state
C15_Witness ==
  /\ component = "ui"
  /\ hook.queued = 2
  /\ \A k \in Keys : hook.uiState[k] # hook.rendered[k]

\* C16 as stated: a provider constructed from storage starts from the state
\* that was written, and from the initial state when nothing is stored
C16_PersistedStateRoundTrips ==
  [][uiMount => hook'.uiState = IF hook.persistId /\ hook.storage # NoItem
                                THEN hook.persisted
                                ELSE uiInitialState]_vars

\* C17 as stated: useHttp's get sets loading and sends one GET; its completion
\* clears loading and sets either data (the body) or error (the message)
C17_HttpGetTracksRequest ==
  [][/\ \A url \in Urls :
          httpGet(url) => /\ httpState'.loading
                          /\ Len(inflight') = Len(inflight) + 1
     /\ \A i \in 1..MaxRequests :
          httpResponse(i)
            => /\ ~httpState'.loading
               /\ \/ httpState'.data \in HttpBodies /\ httpState'.error = httpState.error
                  \/ httpState'.error \in Messages /\ httpState'.data = httpState.data]_vars

\* every keystroke was followed by a re-render before the next one
RerenderedAfterEachKey ==
  \A j, k \in 1..Len(hook.keys) : j # k => hook.keys[j].closure # hook.keys[k].closure
\* the j-th keystroke was followed by another less than KeyDelay later
KeyFollowedInBurst(j) == j < Len(hook.keys) /\ hook.keys[j + 1].at < hook.keys[j].at + KeyDelay

\* C18 as stated: with a re-render after each keystroke, every pair of
\* requests is issued KeyDelay after a keystroke that no other keystroke
\* followed within KeyDelay, and is filtered by the value of that keystroke
C18_RequestsAfterTrailingDelay ==
  RerenderedAfterEachKey
    => \A i \in 1..Len(hook.issued) :
         \E j \in 1..Len(hook.keys) :
           /\ ~KeyFollowedInBurst(j)
           /\ hook.issued[i].at = hook.keys[j].at + KeyDelay
           /\ hook.issued[i].value = hook.keys[j].value

\* C20 as stated, its last part: a response changes the state only when both
\* requests of its pair have completed
C20_Original ==
  [][\A p \in 1..MaxKeys, which \in {"users", "posts"} :
       ((acFulfilled(p, which) \/ \E error \in Errors : acRejected(p, which, error))
          /\ hook'.state # hook.state)
         => hook'.pairs[p].users # "pending" /\ hook'.pairs[p].posts # "pending"]_vars

\* C20 amended: the users and posts of a pair are put into the state when
\* its second request is answered, whichever pair was requested last and
\* whatever completed before; the first answer of a pair changes nothing; the
\* first failure of a pair sets error and clears loading at once, without
\* waiting for the other request, and leaves users and posts alone.
C20_LastCompletedPairWins ==
  [][/\ \A p \in 1..MaxKeys, which \in {"users", "posts"} :
          acFulfilled(p, which)
            => IF hook.pairs[p][Other(which)] = "done" /\ ~hook.pairs[p].settled
               THEN /\ hook'.state.users = Filtered("users", hook.pairs[p].value)
                    /\ hook'.state.posts = Filtered("posts", hook.pairs[p].value)
                    /\ ~hook'.state.loading
               ELSE hook'.state = hook.state
     /\ \A p \in 1..MaxKeys, which \in {"users", "posts"}, error \in Errors :
          acRejected(p, which, error)
            => IF ~hook.pairs[p].settled
               THEN hook'.state = [hook.state EXCEPT !.loading = FALSE, !.error = error]
               ELSE hook'.state = hook.state]_vars

\* C20 witness: two searches overlapped and both were answered in full; the
\* pair requested first completed last and its users are the ones in the
\* state, next to the text of the later search
C20_Witness ==
  /\ Len(hook.pairs) = 2
  /\ hook.pairs[1].value # hook.pairs[2].value
  /\ \A p \in 1..2 : hook.pairs[p].users = "done" /\ hook.pairs[p].posts = "done"
  /\ hook.state.users = Filtered("users", hook.pairs[1].value)
  /\ hook.state.posts = Filtered("posts", hook.pairs[1].value)
  /\ hook.state.textValue = hook.pairs[2].value

\* no two items of the list share an id
UniqueIds(list) ==
  \A j, k \in 1..Len(list) : j # k => list[j].id # list[k].id

\* C19 as stated: in entity mode a successful post, put or patch called on a
\* loaded list merges into the list the store holds when the response is
\* applied: afterwards data has the ids it had just before plus the upserted
\* id, the upserted item in its new version, and no id twice
C19_UpsertMergesIntoCurrentList ==
  [][\A i \in 1..MaxRequests :
       (Response(i) /\ UpsertResolved(i) /\ EntityBranch(inflight[i].base)
          /\ IsArray(state.data))
         => /\ IsArray(state'.data)
            /\ IdsOf(state'.data.l) = IdsOf(state.data.l) \cup {inflight[i].payload.o.id}
            /\ UniqueIds(state'.data.l)]_vars

\* C21: in an entity store with a unique id field, a successful load (get,
\* request or refresh) whose result is a list leaves entities with exactly one
\* entry for every id that occurs in data and no other entry, so nothing is
\* left of the entities held before; the entry of an id is the last item of
\* data that carries it.
C21_LoadRebuildsEntities ==
  [][\A i \in 1..MaxRequests :
       (/\ Response(i)
        /\ LoadResolved(i)
        /\ config.isEntityStore
        /\ config.uniqueId
        /\ IsArray(state'.data))
       => LET data == state'.data.l
              entities == state'.entities.m
          IN /\ state'.entities.t = "map"
             /\ {e.id : e \in entities} = IdsOf(data)
             /\ Cardinality(entities) = Cardinality(IdsOf(data))
             /\ \A e \in entities :
                  \E j \in 1..Len(data) :
                     /\ data[j] = e
                     /\ \A k \in (j + 1)..Len(data) : data[k].id # e.id]_vars

\* C21 witness: the render before the answer showed entities for the ids 1 and
\* 2; the answer is a list that repeats id 1 and has no id 2 (only a load
\* writes a list with a repeated id), and entities holds the last item alone
C21_Witness ==
  /\ config.isEntityStore
  /\ rendered.entities = EntityMap({Item(1, "a"), Item(2, "a")})
  /\ state.data = List(<<Item(1, "a"), Item(1, "b")>>)
  /\ state.entities = EntityMap({Item(1, "b")})
  /\ ~state.loading
  /\ dirty

\* C22: a SET_GLOBAL_STATE action gives every key of its payload the value of
\* the payload and leaves every other key of the current state as it was; an
\* action of any other type gives INITIAL_STATE whatever the current state, so
\* nothing merged before is left.
C22_ReducerMergesOrResets ==
  [][\A action \in Actions :
       dispatch(action) =>
         LET current == IF hook.state = Undefined THEN INITIAL_STATE ELSE hook.state.o
         IN IF action.type = SET_GLOBAL_STATE
            THEN /\ hook'.state.t = "obj"
                 /\ \A k \in ReduxKeys :
                      hook'.state.o[k] = IF action.payload[k] = Absent
                                         THEN current[k]
                                         ELSE action.payload[k]
            ELSE hook'.state = Obj(INITIAL_STATE)]_vars

\* C22 witness: the state held values merged by SET_GLOBAL_STATE actions, under
\* `state` and under the other key, when an action of another type arrived;
\* the state is INITIAL_STATE again
C22_Witness ==
  /\ component = "redux"
  /\ hook.last.type = "OTHER"
  /\ hook.before = Obj([k \in ReduxKeys |-> "wilma"])
  /\ hook.state = Obj(INITIAL_STATE)

====
